---- MODULE Spec2Model ----
(***************************************************************************)
(* A2A protocol: the directory service (a2a_directory.py), the agent       *)
(* client and the agent server (a2a_sdk.py) and the task router            *)
(* (a2a_bridge.py).                                                        *)
(*                                                                         *)
(* Strings that take part in URL paths (agent ids, request paths) are      *)
(* represented by the list python's str.split("/") returns for them: the   *)
(* id "a/b" is <<"a","b">>, the path "/a2a/agents/x" is                    *)
(* <<"","a2a","agents","x">>.  String concatenation with a "/" between     *)
(* the parts is concatenation of these lists.  All other strings (names,   *)
(* endpoints, capability tags) are opaque.                                 *)
(***************************************************************************)
EXTENDS Integers, Sequences, FiniteSets, TLC

VARIABLES
    AGENTS,        \* a2a_directory.AGENTS: insertion-ordered dict, as a sequence of [key, value]
    clock,         \* the wall clock datetime.utcnow() reads
    request,       \* the request the directory handled last: [method, path, body]
    response,      \* the response the directory sent last: [status, body]
    netCalls,      \* the network calls made by the last client operation, in order
    clientResult,  \* how the last client operation ended
    self_endpoint, \* A2AAgent.endpoint of the agent object that called register last
    registered,    \* history: agent id -> the register request the directory accepted last for it
    firstOrder,    \* history: the agent ids in the order of their first accepted registration
    repeated,      \* history: the last request equals the request before it
    task_handler_attr,  \* A2AServer._task_handler
    task_handler,  \* the handler run() captured for its request handler class
    serving,       \* run() is in serve_forever
    srvRequest,    \* the envelope the agent server received last, with _task_handler at that time
    srvResponse,   \* what the sender of that envelope got back
    invoked,       \* the handler calls made while serving that envelope
    rtrRequest,    \* the request the task router handled last
    rtrResponse,   \* what its sender got back
    launched,      \* the backend commands run while handling that request
    rtrLog,        \* the targets the router named in its log while handling it
    conns,         \* concurrent clients: client -> its connection to the directory
    snapshots      \* history: the registry after each register the directory completed

dirVars == <<AGENTS, clock, request, response, netCalls, clientResult,
             self_endpoint, registered, firstOrder, repeated>>

srvVars == <<task_handler_attr, task_handler, serving, srvRequest, srvResponse, invoked>>

rtrVars == <<rtrRequest, rtrResponse, launched, rtrLog>>

netVars == <<conns, snapshots>>

vars == <<dirVars, srvVars, rtrVars, netVars>>

----------------------------------------------------------------------------
(* Bounds and input sets *)

\* the clock readings are 0..MaxTime
MaxTime == 1

\* the ids agents register under: "b" and "a/b"
RegisterIds == {<<"b">>, <<"a", "b">>}

\* the ids that are looked up: those, and "a", which nobody registers
AgentIds == RegisterIds \cup {<<"a">>}

Required == <<"agentId", "name", "capabilities", "endpoint">>

\* name / capabilities / endpoint combinations agents register with
Profiles ==
    { [name |-> "Echo Agent", capabilities |-> <<"echo", "ping">>,
       endpoint |-> "http://localhost:9001"],
      [name |-> "Coder", capabilities |-> <<"code", "ping">>,
       endpoint |-> "http://localhost:9002"],
      [name |-> "Echo Agent", capabilities |-> <<>>,
       endpoint |-> "http://localhost:9002"] }

FullBody(id, p) ==
    [agentId |-> id, name |-> p.name, capabilities |-> p.capabilities,
     endpoint |-> p.endpoint]

\* a JSON object holding only the fields D of full
Restrict(full, D) == [f \in D |-> full[f]]

FieldSets == SUBSET {Required[i] : i \in 1..Len(Required)}

EchoProfile == CHOOSE p \in Profiles : p.capabilities = <<"echo", "ping">>

\* register bodies: every complete one, and one of them with fields left out
RegisterBodies ==
    {FullBody(id, p) : id \in RegisterIds, p \in Profiles}
    \cup {Restrict(FullBody(<<"b">>, EchoProfile), D) : D \in FieldSets}

WantedLists == {<<>>, <<"ping">>, <<"code">>, <<"code", "ping">>, <<"echo", "code">>}

DiscoverBodies ==
    {[capabilities |-> w] : w \in WantedLists} \cup {Restrict([capabilities |-> <<>>], {})}

----------------------------------------------------------------------------
(* python dict with insertion order *)

DictHas(d, k) == \E i \in 1..Len(d) : d[i].key = k

DictGet(d, k) == d[CHOOSE i \in 1..Len(d) : d[i].key = k].value

\* mutant: python list.append, one more entry for a key already there
DictSet_append(d, k, v) == Append(d, [key |-> k, value |-> v])

\* mutant: del d[k]; d[k] = v, the key moves to the end
DictSet_move_to_end(d, k, v) ==
    Append(SelectSeq(d, LAMBDA e : e.key # k), [key |-> k, value |-> v])

DictSet(d, k, v) ==
    IF DictHas(d, k)
    THEN [i \in 1..Len(d) |-> IF d[i].key = k THEN [key |-> k, value |-> v] ELSE d[i]]
    ELSE Append(d, [key |-> k, value |-> v])

DictValues(d) == [i \in 1..Len(d) |-> d[i].value]

----------------------------------------------------------------------------
(* a2a_directory.py *)

RegisterPath == <<"", "a2a", "register">>
DiscoverPath == <<"", "a2a", "discover">>
AgentsPath == <<"", "a2a", "agents">>
UnknownPath == <<"", "a2a">>

Reply(agents, status, body) ==
    [agents |-> agents, resp |-> [status |-> status, body |-> body]]

ErrorBody(msg, detail) == [error |-> <<msg, detail>>]

\* mutant: an update keeps the endpoint of the record already stored
handle_register_keep_endpoint(agents, body, now) ==
    LET missing == SelectSeq(Required, LAMBDA f : f \notin DOMAIN body)
    IN  IF missing # <<>>
        THEN Reply(agents, 400, ErrorBody("Missing fields", missing))
        ELSE LET agent_id == body["agentId"]
                 record == [agentId |-> agent_id,
                            name |-> body["name"],
                            capabilities |-> body["capabilities"],
                            endpoint |-> IF DictHas(agents, agent_id)
                                         THEN DictGet(agents, agent_id).endpoint
                                         ELSE body["endpoint"],
                            registeredAt |-> now]
             IN  Reply(DictSet(agents, agent_id, record), 200,
                       [status |-> "registered", agentId |-> agent_id])

\* mutant: an update extends the capabilities already stored
handle_register_merge(agents, body, now) ==
    LET missing == SelectSeq(Required, LAMBDA f : f \notin DOMAIN body)
    IN  IF missing # <<>>
        THEN Reply(agents, 400, ErrorBody("Missing fields", missing))
        ELSE LET agent_id == body["agentId"]
                 record == [agentId |-> agent_id,
                            name |-> body["name"],
                            capabilities |->
                                IF DictHas(agents, agent_id)
                                THEN DictGet(agents, agent_id).capabilities
                                         \o body["capabilities"]
                                ELSE body["capabilities"],
                            endpoint |-> body["endpoint"],
                            registeredAt |-> now]
             IN  Reply(DictSet(agents, agent_id, record), 200,
                       [status |-> "registered", agentId |-> agent_id])

\* mutant: the error names only the first missing field
handle_register_first_missing(agents, body, now) ==
    LET missing == SelectSeq(Required, LAMBDA f : f \notin DOMAIN body)
    IN  IF missing # <<>>
        THEN Reply(agents, 400, ErrorBody("Missing fields", <<missing[1]>>))
        ELSE LET agent_id == body["agentId"]
                 record == [agentId |-> agent_id,
                            name |-> body["name"],
                            capabilities |-> body["capabilities"],
                            endpoint |-> body["endpoint"],
                            registeredAt |-> now]
             IN  Reply(DictSet(agents, agent_id, record), 200,
                       [status |-> "registered", agentId |-> agent_id])

\* mutant: a register that stamps every record of the registry anew
handle_register_restamp_all(agents, body, now) ==
    LET missing == SelectSeq(Required, LAMBDA f : f \notin DOMAIN body)
    IN  IF missing # <<>>
        THEN Reply(agents, 400, ErrorBody("Missing fields", missing))
        ELSE LET agent_id == body["agentId"]
                 record == [agentId |-> agent_id,
                            name |-> body["name"],
                            capabilities |-> body["capabilities"],
                            endpoint |-> body["endpoint"],
                            registeredAt |-> now]
                 stored == DictSet(agents, agent_id, record)
             IN  Reply([i \in 1..Len(stored) |->
                           [key |-> stored[i].key,
                            value |-> [stored[i].value EXCEPT !.registeredAt = now]]],
                       200, [status |-> "registered", agentId |-> agent_id])

handle_register(agents, body, now) ==
    LET missing == SelectSeq(Required, LAMBDA f : f \notin DOMAIN body)
    IN  IF missing # <<>>
        THEN Reply(agents, 400, ErrorBody("Missing fields", missing))
        ELSE LET agent_id == body["agentId"]
                 record == [agentId |-> agent_id,
                            name |-> body["name"],
                            capabilities |-> body["capabilities"],
                            endpoint |-> body["endpoint"],
                            registeredAt |-> now]
             IN  Reply(DictSet(agents, agent_id, record), 200,
                       [status |-> "registered", agentId |-> agent_id])

SeqToSet(s) == {s[i] : i \in 1..Len(s)}

\* mutant: all(...) instead of any(...)
Matches_all(agent, wanted) ==
    LET agent_caps == SeqToSet(agent.capabilities)
    IN  \A i \in 1..Len(wanted) : wanted[i] \in agent_caps

Matches(agent, wanted) ==
    LET agent_caps == SeqToSet(agent.capabilities)
    IN  \E i \in 1..Len(wanted) : wanted[i] \in agent_caps

Reverse(s) == [i \in 1..Len(s) |-> s[Len(s) + 1 - i]]

\* mutant: the matches come newest first
handle_discover_reversed(agents, body) ==
    LET wanted == IF "capabilities" \in DOMAIN body THEN body["capabilities"] ELSE <<>>
    IN  IF wanted = <<>>
        THEN Reply(agents, 400, ErrorBody("No capabilities specified", <<>>))
        ELSE Reply(agents, 200,
                   [agents |-> Reverse(SelectSeq(DictValues(agents),
                                                 LAMBDA agent : Matches(agent, wanted)))])

handle_discover(agents, body) ==
    LET wanted == IF "capabilities" \in DOMAIN body THEN body["capabilities"] ELSE <<>>
    IN  IF wanted = <<>>
        THEN Reply(agents, 400, ErrorBody("No capabilities specified", <<>>))
        ELSE Reply(agents, 200,
                   [agents |-> SelectSeq(DictValues(agents),
                                         LAMBDA agent : Matches(agent, wanted))])

handle_list_agents(agents) == Reply(agents, 200, [agents |-> DictValues(agents)])

handle_get_agent(agents, agent_id) ==
    IF DictHas(agents, agent_id)
    THEN Reply(agents, 200, DictGet(agents, agent_id))
    ELSE Reply(agents, 404, ErrorBody("Agent not found", <<>>))

do_POST(agents, path, body, now) ==
    IF path = RegisterPath THEN handle_register(agents, body, now)
    ELSE IF path = DiscoverPath THEN handle_discover(agents, body)
    ELSE Reply(agents, 404, ErrorBody("Unknown endpoint", <<>>))

\* path.startswith("/a2a/agents/")
StartsWithAgents(path) == Len(path) >= 4 /\ SubSeq(path, 1, 3) = AgentsPath

\* path.split("/")[-1], as a string
LastSegment(path) == <<path[Len(path)]>>

do_GET(agents, path) ==
    IF path = AgentsPath THEN handle_list_agents(agents)
    ELSE IF StartsWithAgents(path) THEN handle_get_agent(agents, LastSegment(path))
    ELSE Reply(agents, 404, ErrorBody("Unknown endpoint", <<>>))

\* the path of f"{directory_url}/a2a/agents/{agent_id}"
AgentUrlPath(agent_id) == AgentsPath \o agent_id

----------------------------------------------------------------------------
(* a2a_sdk.py: A2AAgent.send_task *)

NoBody == Restrict([x |-> 0], {})

NoResult == [kind |-> "none"]

DirectoryCall(path) == [to |-> "directory", method |-> "GET", path |-> path]
AgentCall(endpoint) == [to |-> endpoint, method |-> "POST", path |-> <<"">>]

\* _get: the parsed body, or {"error": "HTTP <code>"} on an HTTP error status
http_get(resp) ==
    IF resp.status = 200 THEN resp.body ELSE [error |-> <<"HTTP", resp.status>>]

\* the outcomes of _post to the target's endpoint: its answer, an HTTP error
\* turned into a dict, or a connection failure raised by urlopen
PostOutcomes == {"answer", "http_error", "URLError"}

send_task(agents, target_agent_id, outcome) ==
    LET path == AgentUrlPath(target_agent_id)
        target == http_get(do_GET(agents, path).resp)
    IN  IF "error" \in DOMAIN target
        THEN [calls |-> <<DirectoryCall(path)>>,
              result |-> [kind |-> "raised", exc |-> "ValueError"]]
        ELSE [calls |-> <<DirectoryCall(path), AgentCall(target["endpoint"])>>,
              result |-> IF outcome = "URLError"
                         THEN [kind |-> "raised", exc |-> "URLError"]
                         ELSE [kind |-> "returned", from |-> target["endpoint"],
                               what |-> outcome]]

----------------------------------------------------------------------------
(* The state machine *)

\* A2AServer.__init__, no envelope received yet
ServerInit ==
    /\ task_handler_attr = "None"
    /\ task_handler = "None"
    /\ serving = FALSE
    /\ srvRequest = [envelope |-> NoBody, attr |-> "None"]
    /\ srvResponse = [kind |-> "none"]
    /\ invoked = <<>>

\* the task router has handled no request yet
RouterInit ==
    /\ rtrRequest = NoBody
    /\ rtrResponse = [kind |-> "none"]
    /\ launched = <<>>
    /\ rtrLog = <<>>

\* the clients that call the directory at the same time
Clients == {"c1", "c2"}

\* a client that has no request under way
IdleConn ==
    [stage |-> "idle",
     req |-> [method |-> "none", path |-> <<>>, body |-> NoBody],
     resp |-> [status |-> 0, body |-> NoBody],
     size |-> 0, i |-> 0, matches |-> <<>>]

\* no client has called the directory yet
NetInit ==
    /\ conns = [c \in Clients |-> IdleConn]
    /\ snapshots = <<<<>>>>

Init ==
    /\ ServerInit
    /\ RouterInit
    /\ NetInit
    /\ AGENTS = <<>>
    /\ clock = 0
    /\ request = [method |-> "none", path |-> <<>>, body |-> NoBody]
    /\ response = [status |-> 0, body |-> NoBody]
    /\ netCalls = <<>>
    /\ clientResult = NoResult
    /\ self_endpoint = "None"
    /\ registered = NoBody
    /\ firstOrder = <<>>
    /\ repeated = FALSE

\* the history variables after the directory answered req with resp
Observe(req, resp) ==
    LET accepted == /\ req.method = "POST"
                    /\ req.path = RegisterPath
                    /\ resp.status = 200
        id == req.body["agentId"]
    IN  /\ registered' =
              IF accepted
              THEN [k \in DOMAIN registered \cup {id} |->
                       IF k = id THEN [body |-> req.body, at |-> clock]
                       ELSE registered[k]]
              ELSE registered
        /\ firstOrder' =
              IF accepted /\ id \notin DOMAIN registered
              THEN Append(firstOrder, id)
              ELSE firstOrder
        /\ repeated' = (req = request)

\* time passes
Tick ==
    /\ clock < MaxTime
    /\ clock' = clock + 1
    /\ UNCHANGED <<AGENTS, request, response, netCalls, clientResult,
                   self_endpoint, registered, firstOrder, repeated>>
    /\ UNCHANGED <<srvVars, rtrVars, netVars>>

\* the directory serves one POST request
Post(path, body) ==
    LET r == do_POST(AGENTS, path, body, clock)
        req == [method |-> "POST", path |-> path, body |-> body]
    IN  /\ request' = req
        /\ AGENTS' = r.agents
        /\ response' = r.resp
        /\ netCalls' = <<>>
        /\ clientResult' = NoResult
        /\ Observe(req, r.resp)
        /\ UNCHANGED <<clock, self_endpoint>>
        /\ UNCHANGED <<srvVars, rtrVars, netVars>>

\* the directory serves one GET request
Get(path) ==
    LET r == do_GET(AGENTS, path)
        req == [method |-> "GET", path |-> path, body |-> NoBody]
    IN  /\ request' = req
        /\ AGENTS' = r.agents
        /\ response' = r.resp
        /\ netCalls' = <<>>
        /\ clientResult' = NoResult
        /\ Observe(req, r.resp)
        /\ UNCHANGED <<clock, self_endpoint>>
        /\ UNCHANGED <<srvVars, rtrVars, netVars>>

PostRegister == \E body \in RegisterBodies : Post(RegisterPath, body)

PostDiscover == \E body \in DiscoverBodies : Post(DiscoverPath, body)

PostUnknown == Post(UnknownPath, NoBody)

GetAgents == Get(AgentsPath)

GetAgent == \E id \in AgentIds : Get(AgentUrlPath(id))

GetUnknown == Get(UnknownPath)

\* an agent calls send_task; the directory serves its GET
SendTask ==
    \E target \in AgentIds, outcome \in PostOutcomes :
        LET path == AgentUrlPath(target)
            r == do_GET(AGENTS, path)
            req == [method |-> "GET", path |-> path, body |-> NoBody]
            s == send_task(AGENTS, target, outcome)
        IN  /\ request' = req
            /\ AGENTS' = r.agents
            /\ response' = r.resp
            /\ netCalls' = s.calls
            /\ clientResult' = s.result
            /\ Observe(req, r.resp)
            /\ UNCHANGED <<clock, self_endpoint>>
            /\ UNCHANGED <<srvVars, rtrVars, netVars>>

\* the directory and its callers
Next ==
    \/ Tick
    \/ PostRegister
    \/ PostDiscover
    \/ PostUnknown
    \/ GetAgents
    \/ GetAgent
    \/ GetUnknown
    \/ SendTask

Spec == Init /\ [][Next]_vars

----------------------------------------------------------------------------
(* What the directory answers in the current state *)

\* list()
ListNow == handle_list_agents(AGENTS).resp.body.agents

\* get(agentId): GET /a2a/agents/{agentId}
GetNow(id) == do_GET(AGENTS, AgentUrlPath(id)).resp

\* discover(W)
DiscoverNow(w) == handle_discover(AGENTS, [capabilities |-> w]).resp

IsRegister == request.method = "POST" /\ request.path = RegisterPath

RegisterAccepted == IsRegister /\ response.status = 200

IsDiscover == request.method = "POST" /\ request.path = DiscoverPath

\* the wanted list of the last discover request
WantedOf(body) ==
    IF "capabilities" \in DOMAIN body THEN body["capabilities"] ELSE <<>>

\* the record r holds exactly the fields of the register body b
SameFields(r, b) ==
    /\ r.agentId = b["agentId"]
    /\ r.name = b["name"]
    /\ r.capabilities = b["capabilities"]
    /\ r.endpoint = b["endpoint"]

\* the first record of list() was registered again after the second one was registered
FirstOverwritten ==
    /\ Len(AGENTS) = 2
    /\ AGENTS[1].value.registeredAt > AGENTS[2].value.registeredAt

----------------------------------------------------------------------------
(* C1: after an accepted register of record R, list() holds every agent id *)
(* registered so far exactly once, so registering a second id adds it and   *)
(* registering an id again leaves the length alone; the one record list()   *)
(* holds for R's id has R's name, capabilities and endpoint, no value of    *)
(* the record it replaced and no merged capabilities; and get and discover  *)
(* show no other record under that id.                                      *)
C1_RegisterReplaces ==
    RegisterAccepted =>
        LET b == request.body
            recs == ListNow
            mine == SelectSeq(recs, LAMBDA r : r.agentId = b["agentId"])
        IN  /\ Len(mine) = 1
            /\ SameFields(mine[1], b)
            /\ \A id \in DOMAIN registered : \E i \in 1..Len(recs) : recs[i].agentId = id
            /\ Len(recs) = Cardinality(DOMAIN registered)
            /\ \A id \in AgentIds :
                   (GetNow(id).status = 200 /\ GetNow(id).body.agentId = b["agentId"])
                       => GetNow(id).body = mine[1]
            /\ \A w \in WantedLists :
                   DiscoverNow(w).status = 200 =>
                       \A i \in 1..Len(DiscoverNow(w).body.agents) :
                           DiscoverNow(w).body.agents[i].agentId = b["agentId"]
                               => DiscoverNow(w).body.agents[i] = mine[1]

\* two ids are registered and the first was registered again with other fields
C1_Witness ==
    /\ RegisterAccepted
    /\ FirstOverwritten
    /\ request.body["agentId"] = AGENTS[1].key
    /\ request.body["capabilities"] = <<"code", "ping">>
    /\ Cardinality(DOMAIN registered) = 2

----------------------------------------------------------------------------
(* C2: a discover request with a non-empty wanted list W is answered 200    *)
(* with exactly the records of list() whose capability set has an element   *)
(* in common with W, each once (the empty list when there is none); a       *)
(* request with an empty or absent wanted list is answered 400 with an      *)
(* error.  With only a record of capabilities [echo, ping] registered,      *)
(* discover([ping]) is that one record and discover([code]) is empty.       *)
Intersects(caps, w) == SeqToSet(caps) \cap SeqToSet(w) # {}

CountIn(seq, x) == Cardinality({i \in 1..Len(seq) : seq[i] = x})

C2_DiscoverExact ==
    /\ IsDiscover =>
          LET w == WantedOf(request.body)
              recs == ListNow
          IN  IF w = <<>>
              THEN /\ response.status = 400
                   /\ DOMAIN response.body = {"error"}
              ELSE /\ response.status = 200
                   /\ DOMAIN response.body = {"agents"}
                   /\ \A i \in 1..Len(recs) :
                          CountIn(response.body.agents, recs[i]) =
                              IF Intersects(recs[i].capabilities, w) THEN 1 ELSE 0
                   /\ \A i \in 1..Len(response.body.agents) :
                          \E j \in 1..Len(recs) : recs[j] = response.body.agents[i]
    /\ (Len(ListNow) = 1 /\ ListNow[1].capabilities = <<"echo", "ping">>) =>
          /\ DiscoverNow(<<"ping">>).body.agents = <<ListNow[1]>>
          /\ DiscoverNow(<<"code">>).body.agents = <<>>

\* a discover that matched one of two records
C2_Witness ==
    /\ IsDiscover
    /\ response.status = 200
    /\ Len(ListNow) = 2
    /\ Len(response.body.agents) = 1

----------------------------------------------------------------------------
(* C3: a GET of /a2a/agents/{agentId} is answered 200 with the record of    *)
(* the register request accepted last for that id when one was accepted,    *)
(* and 404 when none was.                                                   *)
C3_GetReturnsLastRegistered ==
    \A id \in AgentIds :
        (request.method = "GET" /\ request.path = AgentUrlPath(id)) =>
            IF id \in DOMAIN registered
            THEN /\ response.status = 200
                 /\ SameFields(response.body, registered[id].body)
                 /\ response.body.registeredAt = registered[id].at
            ELSE response.status = 404

----------------------------------------------------------------------------
(* C4: a register request that lacks a required field is answered 400 with  *)
(* an error that names the missing fields, each once and no other, and the  *)
(* registry is what it was before the request.                              *)
MissingOf(body) == {Required[i] : i \in 1..Len(Required)} \ DOMAIN body

C4_MissingFieldsRejected ==
    [][(IsRegister' /\ MissingOf(request'.body) # {}) =>
           /\ response'.status = 400
           /\ DOMAIN response'.body = {"error"}
           /\ response'.body.error[1] = "Missing fields"
           /\ SeqToSet(response'.body.error[2]) = MissingOf(request'.body)
           /\ Len(response'.body.error[2]) = Cardinality(MissingOf(request'.body))
           /\ AGENTS' = AGENTS]_vars

\* a request for a registered id, without name and endpoint, was rejected
C4_Witness ==
    /\ IsRegister
    /\ response.status = 400
    /\ DOMAIN request.body = {"agentId", "capabilities"}
    /\ DictHas(AGENTS, request.body["agentId"])

----------------------------------------------------------------------------
(* C5: list() holds the records in the order in which their ids were first  *)
(* registered, also after an id was registered again.                       *)
C5_ListInFirstRegistrationOrder ==
    [i \in 1..Len(ListNow) |-> ListNow[i].agentId] = firstOrder

\* the first of two records was registered again and is still first
C5_Witness ==
    /\ FirstOverwritten
    /\ RegisterAccepted
    /\ request.body["agentId"] = firstOrder[1]

----------------------------------------------------------------------------
(* C6: the list a discover request is answered with is a subsequence of     *)
(* list(): its records are records of list(), in the order list() has them. *)
RECURSIVE IsSubsequence(_, _)
IsSubsequence(s, t) ==
    IF s = <<>> THEN TRUE
    ELSE IF t = <<>> THEN FALSE
    ELSE IF Head(s) = Head(t) THEN IsSubsequence(Tail(s), Tail(t))
    ELSE IsSubsequence(s, Tail(t))

C6_DiscoverInRegistryOrder ==
    (IsDiscover /\ response.status = 200) =>
        IsSubsequence(response.body.agents, ListNow)

\* both records match, the second one on more capabilities than the first
C6_Witness ==
    /\ IsDiscover
    /\ response.status = 200
    /\ Len(response.body.agents) = 2
    /\ request.body["capabilities"] = <<"code", "ping">>
    /\ ListNow[1].capabilities = <<"echo", "ping">>
    /\ ListNow[2].capabilities = <<"code", "ping">>

----------------------------------------------------------------------------
(* C7 as claimed: when the same register request is accepted twice in a     *)
(* row, the registry after the second call is the registry after the        *)
(* first, registeredAt included, and list, get and discover return the same.*)
SameTwice == repeated' /\ request' = request /\ RegisterAccepted'

C7_RegisterIdempotent ==
    [][SameTwice =>
           /\ AGENTS' = AGENTS
           /\ ListNow' = ListNow
           /\ \A id \in AgentIds : GetNow(id)' = GetNow(id)
           /\ \A w \in WantedLists : DiscoverNow(w)' = DiscoverNow(w)]_vars

(* C7 as amended: when the same register request is accepted twice in a     *)
(* row, the registry after the second call has the same keys in the same    *)
(* order, every other record is untouched, and the record registered again  *)
(* has the same agentId, name, capabilities and endpoint; only its          *)
(* registeredAt is set anew, to the time of the second call.  list, get     *)
(* and discover return the same apart from that registeredAt.               *)
NoTime(r) == [f \in DOMAIN r \ {"registeredAt"} |-> r[f]]

NoTimes(recs) == [i \in 1..Len(recs) |-> NoTime(recs[i])]

C7_RegisterIdempotentButTime ==
    [][SameTwice =>
           LET id == request.body["agentId"]
           IN  /\ Len(AGENTS') = Len(AGENTS)
               /\ \A i \in 1..Len(AGENTS) :
                      /\ AGENTS'[i].key = AGENTS[i].key
                      /\ AGENTS[i].key # id => AGENTS'[i] = AGENTS[i]
                      /\ AGENTS[i].key = id =>
                             /\ NoTime(AGENTS'[i].value) = NoTime(AGENTS[i].value)
                             /\ clock' = clock => AGENTS'[i].value.registeredAt = clock
               /\ NoTimes(ListNow') = NoTimes(ListNow)
               /\ \A k \in AgentIds :
                      /\ GetNow(k)'.status = GetNow(k).status
                      /\ NoTime(GetNow(k)'.body) = NoTime(GetNow(k).body)
               /\ \A w \in WantedLists :
                      /\ DiscoverNow(w)'.status = DiscoverNow(w).status
                      /\ DiscoverNow(w).status = 200 =>
                             NoTimes(DiscoverNow(w)'.body.agents)
                                 = NoTimes(DiscoverNow(w).body.agents)]_vars

\* the same request was accepted twice in a row, the second time after the
\* clock had moved on from the other record's registration
C7_Witness ==
    /\ repeated
    /\ RegisterAccepted
    /\ FirstOverwritten
    /\ request.body["agentId"] = AGENTS[1].key
    /\ AGENTS[1].value.registeredAt = clock

----------------------------------------------------------------------------
(* C8: every record of the registry has a non-empty capabilities list.      *)
C8_CapabilitiesNonEmpty ==
    \A i \in 1..Len(AGENTS) : AGENTS[i].value.capabilities # <<>>

----------------------------------------------------------------------------
(* C9: the registry holds at most one record per agent id, the record       *)
(* stored under key k has agentId k, and list() has no two records with     *)
(* the same agentId.                                                        *)
C9_AgentIdsUnique ==
    /\ \A i, j \in 1..Len(AGENTS) : AGENTS[i].key = AGENTS[j].key => i = j
    /\ \A i \in 1..Len(AGENTS) : AGENTS[i].value.agentId = AGENTS[i].key
    /\ \A i, j \in 1..Len(ListNow) : ListNow[i].agentId = ListNow[j].agentId => i = j

\* an id was registered a second time while another id is registered
C9_Witness ==
    /\ FirstOverwritten
    /\ RegisterAccepted
    /\ request.body["agentId"] = AGENTS[1].key

----------------------------------------------------------------------------
(* C10: a send_task whose target id was never registered ends with the      *)
(* ValueError "Agent not found", and the directory GET is the only network  *)
(* call it made.                                                            *)
C10_UnregisteredTargetNotFound ==
    \A target \in AgentIds :
        (/\ clientResult # NoResult
         /\ netCalls[1] = DirectoryCall(AgentUrlPath(target))
         /\ target \notin DOMAIN registered)
            => /\ clientResult = [kind |-> "raised", exc |-> "ValueError"]
               /\ netCalls = <<DirectoryCall(AgentUrlPath(target))>>

----------------------------------------------------------------------------
(* a2a_sdk.py: A2AServer *)

\* dict.get(key, default)
DictGetOr(d, key, default) == IF key \in DOMAIN d THEN d[key] ELSE default

\* Python values a handler returns, by their type; v lists what they hold
PyDict(v) == [py |-> "dict", v |-> v]
PyList(v) == [py |-> "list", v |-> v]
PyTuple(v) == [py |-> "tuple", v |-> v]
PySet(v) == [py |-> "set", v |-> v]

\* json.dumps raises TypeError for a set
Serializable(x) == x.py \in {"dict", "list", "tuple"}

\* json.loads(json.dumps(x)): a tuple is written as an array and read as a list
JsonRoundTrip(x) == IF x.py = "tuple" THEN PyList(x.v) ELSE x

\* the task handlers agents register: the CLI's echo_handler, the echo agent's
\* handle_task, one that returns a tuple and one that returns a set
Handlers == {"echo_handler", "handle_task", "pair_handler", "tags_handler"}

HandlerResult(h, action, input, sender) ==
    CASE h = "echo_handler" ->
            PyDict([received_action |-> action, received_input |-> input, from |-> sender])
      [] h = "handle_task" ->
            IF action = "echo"
            THEN PyDict([echoed |-> DictGetOr(input.v, "message", "no message")])
            ELSE IF action = "ping"
            THEN PyDict([pong |-> "True", from |-> "echo-agent"])
            ELSE PyDict([error |-> <<"Unknown action: ", action>>])
      [] h = "pair_handler" -> PyTuple(<<action, sender>>)
      [] OTHER -> PySet(<<action>>)

TaskMethod == "a2a/task"

\* the envelopes agents send; the last ones carry another method or none
Envelopes ==
    LET full == {[id |-> i, method |-> m,
                  params |-> [taskId |-> t, action |-> a, sender |-> sd, input |-> PyDict(inp)]] :
                    i \in {"c1", "c2"}, t \in {"t1", "t2"}, m \in {TaskMethod, "a2a/cancel"},
                    a \in {"ping", "echo"}, sd \in {"me", "you"},
                    inp \in {<<>>, [message |-> "hi"]}}
    IN  full \cup {Restrict(e, {"id", "params"}) : e \in {f \in full : f.method = TaskMethod}}

ErrorResponse(task_id, code, message) ==
    [jsonrpc |-> "2.0", id |-> task_id, error |-> [code |-> code, message |-> message]]

\* what the sender reads: the response parsed from JSON, or nothing parsable
\* when json.dumps raised after the status line was sent
Sent(resp) ==
    IF "result" \in DOMAIN resp
    THEN IF Serializable(resp.result.output)
         THEN [kind |-> "json",
               body |-> [resp EXCEPT !.result.output = JsonRoundTrip(resp.result.output)]]
         ELSE [kind |-> "no_json"]
    ELSE [kind |-> "json", body |-> resp]

\* mutant: the handler is looked at before the method
server_do_POST_handler_first(handler, envelope) ==
    LET jsonrpc_method == DictGetOr(envelope, "method", "")
        task_id == envelope["id"]
    IN  IF handler = "None"
        THEN [invoked |-> <<>>,
              sent |-> Sent(ErrorResponse(task_id, -32001, "No handler registered"))]
        ELSE IF jsonrpc_method = TaskMethod
        THEN LET params == envelope["params"]
                 call == [handler |-> handler, action |-> params.action,
                          input_data |-> params.input, sender |-> params.sender]
             IN  [invoked |-> <<call>>,
                  sent |-> Sent([jsonrpc |-> "2.0", id |-> task_id,
                                 result |-> [taskId |-> params.taskId,
                                             status |-> "completed",
                                             output |-> HandlerResult(handler, params.action,
                                                                      params.input,
                                                                      params.sender)]])]
        ELSE [invoked |-> <<>>,
              sent |-> Sent(ErrorResponse(task_id, -32601, "Method not found"))]

\* Handler.do_POST, with the handler run() captured
server_do_POST(handler, envelope) ==
    LET jsonrpc_method == DictGetOr(envelope, "method", "")
        task_id == envelope["id"]
    IN  IF jsonrpc_method = TaskMethod
        THEN LET params == envelope["params"]
                 call == [handler |-> handler, action |-> params.action,
                          input_data |-> params.input, sender |-> params.sender]
             IN  IF handler # "None"
                 THEN [invoked |-> <<call>>,
                       sent |-> Sent([jsonrpc |-> "2.0", id |-> task_id,
                                      result |-> [taskId |-> params.taskId,
                                                  status |-> "completed",
                                                  output |-> HandlerResult(handler,
                                                                 params.action, params.input,
                                                                 params.sender)]])]
                 ELSE [invoked |-> <<>>,
                       sent |-> Sent(ErrorResponse(task_id, -32001, "No handler registered"))]
        ELSE [invoked |-> <<>>,
              sent |-> Sent(ErrorResponse(task_id, -32601, "Method not found"))]

\* A2AServer.handle_task(func)
RegisterHandler ==
    \E func \in Handlers :
        /\ task_handler_attr' = func
        /\ UNCHANGED <<task_handler, serving, srvRequest, srvResponse, invoked>>
        /\ UNCHANGED <<dirVars, rtrVars, netVars>>

\* A2AServer.run() up to serve_forever
Run ==
    /\ ~serving
    /\ serving' = TRUE
    /\ task_handler' = task_handler_attr
    /\ UNCHANGED <<task_handler_attr, srvRequest, srvResponse, invoked>>
    /\ UNCHANGED <<dirVars, rtrVars, netVars>>

\* KeyboardInterrupt: run() returns
Shutdown ==
    /\ serving
    /\ serving' = FALSE
    /\ UNCHANGED <<task_handler_attr, task_handler, srvRequest, srvResponse, invoked>>
    /\ UNCHANGED <<dirVars, rtrVars, netVars>>

\* the running server serves one envelope
ServerPost ==
    \E envelope \in Envelopes :
        LET r == server_do_POST(task_handler, envelope)
        IN  /\ serving
            /\ srvRequest' = [envelope |-> envelope, attr |-> task_handler_attr]
            /\ srvResponse' = r.sent
            /\ invoked' = r.invoked
            /\ UNCHANGED <<task_handler_attr, task_handler, serving>>
            /\ UNCHANGED <<dirVars, rtrVars, netVars>>

ServerNext ==
    \/ RegisterHandler
    \/ Run
    \/ Shutdown
    \/ ServerPost

ServerSpec == Init /\ [][ServerNext]_vars

----------------------------------------------------------------------------
(* The envelope served last *)

Received == srvRequest.envelope # NoBody

IsTaskEnvelope ==
    /\ Received
    /\ DictGetOr(srvRequest.envelope, "method", "") = TaskMethod

\* the call of handler h the envelope asks for
CallOf(h, envelope) ==
    [handler |-> h, action |-> envelope["params"].action,
     input_data |-> envelope["params"].input, sender |-> envelope["params"].sender]

----------------------------------------------------------------------------
(* C11: when a task envelope with action a, input i and sender s arrives    *)
(* at a server that has handler h registered, h is called exactly once,     *)
(* with (a, i, s), and the sender gets a result with status "completed"     *)
(* whose output is h(a, i, s).                                              *)
C11_RoundTrip ==
    (IsTaskEnvelope /\ srvRequest.attr # "None") =>
        LET e == srvRequest.envelope
            h == srvRequest.attr
        IN  /\ invoked = <<CallOf(h, e)>>
            /\ srvResponse.kind = "json"
            /\ "result" \in DOMAIN srvResponse.body
            /\ srvResponse.body.result.status = "completed"
            /\ srvResponse.body.result.output =
                   HandlerResult(h, e["params"].action, e["params"].input, e["params"].sender)

----------------------------------------------------------------------------
(* C12: an envelope whose method is not "a2a/task" is answered with error   *)
(* code -32601 and no handler is called; a task envelope that arrives       *)
(* while no handler is registered is answered with error code -32001;       *)
(* neither answer has a result.                                             *)
C12_ErrorCodes ==
    /\ (Received /\ ~IsTaskEnvelope) =>
           /\ invoked = <<>>
           /\ srvResponse.kind = "json"
           /\ "error" \in DOMAIN srvResponse.body
           /\ srvResponse.body.error.code = -32601
           /\ "result" \notin DOMAIN srvResponse.body
    /\ (IsTaskEnvelope /\ srvRequest.attr = "None") =>
           /\ invoked = <<>>
           /\ srvResponse.kind = "json"
           /\ "error" \in DOMAIN srvResponse.body
           /\ srvResponse.body.error.code = -32001
           /\ "result" \notin DOMAIN srvResponse.body

\* an envelope without a method was refused
C12_WitnessMethod ==
    /\ Received
    /\ "method" \notin DOMAIN srvRequest.envelope
    /\ srvResponse.body.error.code = -32601
    /\ task_handler # "None"

----------------------------------------------------------------------------
(* C13: a task envelope is dispatched to the handler that was registered    *)
(* last when the envelope arrived, and to no other handler.                 *)
C13_LastRegistrationWins ==
    (IsTaskEnvelope /\ srvRequest.attr # "None") =>
        /\ Len(invoked) = 1
        /\ invoked[1].handler = srvRequest.attr

----------------------------------------------------------------------------
(* a2a_bridge.py: text, written as the sequence of its characters *)

UpperCase == <<"A", "B", "C", "D", "E", "F", "G", "H", "I", "J", "K", "L", "M",
               "N", "O", "P", "Q", "R", "S", "T", "U", "V", "W", "X", "Y", "Z">>
LowerCase == <<"a", "b", "c", "d", "e", "f", "g", "h", "i", "j", "k", "l", "m",
               "n", "o", "p", "q", "r", "s", "t", "u", "v", "w", "x", "y", "z">>

\* str.lower()
LowerChar(c) ==
    IF \E i \in 1..Len(UpperCase) : UpperCase[i] = c
    THEN LowerCase[CHOOSE i \in 1..Len(UpperCase) : UpperCase[i] = c]
    ELSE c
RECURSIVE Lower(_)
Lower(s) == IF s = <<>> THEN <<>> ELSE <<LowerChar(Head(s))>> \o Lower(Tail(s))

\* kw in s
Contains(s, kw) ==
    \E i \in 0..(Len(s) - Len(kw)) : SubSeq(s, i + 1, i + Len(kw)) = kw

\* any(kw in s for kw in kws)
ContainsAny(s, kws) == \E k \in 1..Len(kws) : Contains(s, kws[k])

Whitespace == {" ", "\n"}

\* str.strip()
RECURSIVE LStrip(_)
LStrip(s) == IF s # <<>> /\ Head(s) \in Whitespace THEN LStrip(Tail(s)) ELSE s
RECURSIVE RStrip(_)
RStrip(s) ==
    IF s # <<>> /\ s[Len(s)] \in Whitespace THEN RStrip(SubSeq(s, 1, Len(s) - 1)) ELSE s
Strip(s) == RStrip(LStrip(s))

\* input values: a dict is the sequence of its (key, value) items, in order
InDict(items) == [py |-> "dict", v |-> items]
InStr(s) == [py |-> "str", v |-> s]

\* the items of a dict written with quote q around keys and values
RECURSIVE Items(_, _)
Items(items, q) ==
    IF items = <<>> THEN <<>>
    ELSE q \o items[1][1] \o q \o <<":", " ">> \o q \o items[1][2] \o q
         \o (IF Len(items) > 1 THEN <<",", " ">> ELSE <<>>) \o Items(Tail(items), q)

\* str(input_data)
Str(x) == IF x.py = "dict" THEN <<"{">> \o Items(x.v, <<"'">>) \o <<"}">> ELSE x.v

\* json.dumps(input_data)
JsonDumps(x) ==
    IF x.py = "dict" THEN <<"{">> \o Items(x.v, <<"\"">>) \o <<"}">>
    ELSE <<"\"">> \o x.v \o <<"\"">>


\* the keyword lists of _determine_target_agent
CodeActionKw ==
    <<<<"c", "o", "d", "e">>,
      <<"p", "r", "o", "g", "r", "a", "m">>,
      <<"i", "m", "p", "l", "e", "m", "e", "n", "t">>,
      <<"b", "u", "i", "l", "d">>,
      <<"f", "u", "n", "c", "t", "i", "o", "n">>>>
CodeInputKw ==
    <<<<"c", "o", "d", "e">>,
      <<"p", "r", "o", "g", "r", "a", "m">>>>
DataActionKw ==
    <<<<"d", "a", "t", "a">>,
      <<"a", "n", "a", "l", "y", "z", "e">>,
      <<"a", "n", "a", "l", "y", "t", "i", "c", "s">>,
      <<"q", "u", "e", "r", "y">>,
      <<"s", "t", "a", "t", "s">>>>
DataInputKw ==
    <<<<"a", "n", "a", "l", "y", "z", "e">>,
      <<"a", "n", "a", "l", "y", "t", "i", "c", "s">>,
      <<"d", "a", "t", "a">>>>
ApiActionKw ==
    <<<<"a", "p", "i">>,
      <<"i", "n", "t", "e", "g", "r", "a", "t", "i", "o", "n">>,
      <<"w", "e", "b", "h", "o", "o", "k">>,
      <<"c", "o", "n", "n", "e", "c", "t">>>>
ResearchActionKw ==
    <<<<"r", "e", "s", "e", "a", "r", "c", "h">>,
      <<"s", "e", "a", "r", "c", "h">>,
      <<"f", "i", "n", "d">>>>
ResearchInputKw ==
    <<<<"r", "e", "s", "e", "a", "r", "c", "h">>,
      <<"f", "i", "n", "d">>>>
WriteActionKw ==
    <<<<"w", "r", "i", "t", "e">>,
      <<"d", "o", "c", "u", "m", "e", "n", "t">>,
      <<"d", "r", "a", "f", "t">>,
      <<"e", "d", "i", "t">>,
      <<"c", "r", "e", "a", "t", "e">>>>
WriteInputKw ==
    <<<<"w", "r", "i", "t", "e">>,
      <<"d", "o", "c", "u", "m", "e", "n", "t">>>>

\* the words the router and its callers use
Research == <<"r", "e", "s", "e", "a", "r", "c", "h">>
WriteWord == <<"w", "r", "i", "t", "e">>
Query == <<"q", "u", "e", "r", "y">>
Topic == <<"t", "o", "p", "i", "c">>
Content == <<"c", "o", "n", "t", "e", "n", "t">>
WriteAbout == <<"W", "r", "i", "t", "e", " ", "a", "b", "o", "u", "t", ":", " ">>
TaskCompleted == <<"T", "a", "s", "k", " ", "c", "o", "m", "p", "l", "e", "t", "e", "d">>
TaskTimedOut == <<"T", "a", "s", "k", " ", "t", "i", "m", "e", "d", " ", "o", "u", "t">>
ImplementAFunction == <<"i", "m", "p", "l", "e", "m", "e", "n", "t", " ", "a", " ", "f", "u", "n", "c", "t", "i", "o", "n">>
ResearchAITrends == <<"r", "e", "s", "e", "a", "r", "c", "h", " ", "A", "I", " ", "t", "r", "e", "n", "d", "s">>
SummarizeThis == <<"s", "u", "m", "m", "a", "r", "i", "z", "e", " ", "t", "h", "i", "s">>
ConnectAPI == <<"C", "o", "n", "n", "e", "c", "t", " ", "A", "P", "I">>
EditData == <<"e", "d", "i", "t", " ", "d", "a", "t", "a">>
OpenData == <<"o", "p", "e", "n", " ", "d", "a", "t", "a">>
FindCode == <<"f", "i", "n", "d", " ", "c", "o", "d", "e">>
Document == <<"D", "o", "c", "u", "m", "e", "n", "t">>
Llm == <<"l", "l", "m">>
AnswerOut == <<" ", "o", "k", "\n">>
BlankOut == <<" ", "\n">>
Boom == <<"b", "o", "o", "m">>
NoSuchFile == <<"[", "E", "r", "r", "n", "o", " ", "2", "]", " ", "N", "o", " ", "s", "u", "c", "h", " ", "f", "i", "l", "e", " ", "o", "r", " ", "d", "i", "r", "e", "c", "t", "o", "r", "y", ":", " ", "'", "o", "p", "e", "n", "g", "o", "a", "t", "'">>

----------------------------------------------------------------------------
(* a2a_bridge.py: A2ABridgeHandler *)

\* dict.get(key, default) on the items of a dict
RECURSIVE ItemGet(_, _, _)
ItemGet(items, key, default) ==
    IF items = <<>> THEN default
    ELSE IF items[Len(items)][1] = key THEN items[Len(items)][2]
    ELSE ItemGet(SubSeq(items, 1, Len(items) - 1), key, default)

CodeAgent == [agent_id |-> "code", name |-> "Code Agent"]
DataAgent == [agent_id |-> "data", name |-> "Data Agent"]
ApiAgent == [agent_id |-> "api", name |-> "API Agent"]
Researcher == [agent_id |-> "researcher", name |-> "Researcher"]
Writer == [agent_id |-> "writer", name |-> "Writer"]

\* mutant: every category looks at the action before any looks at the input
determine_target_agent_actions_first(action, input_data) ==
    LET action_lower == Lower(action)
        input_str == Lower(Str(input_data))
    IN  IF ContainsAny(action_lower, CodeActionKw) THEN CodeAgent
        ELSE IF ContainsAny(action_lower, DataActionKw) THEN DataAgent
        ELSE IF ContainsAny(action_lower, ApiActionKw) THEN ApiAgent
        ELSE IF ContainsAny(action_lower, ResearchActionKw) THEN Researcher
        ELSE IF ContainsAny(action_lower, WriteActionKw) THEN Writer
        ELSE IF ContainsAny(input_str, CodeInputKw) THEN CodeAgent
        ELSE IF ContainsAny(input_str, DataInputKw) THEN DataAgent
        ELSE IF ContainsAny(input_str, ResearchInputKw) THEN Researcher
        ELSE IF ContainsAny(input_str, WriteInputKw) THEN Writer
        ELSE Researcher

\* _determine_target_agent
determine_target_agent(action, input_data) ==
    LET action_lower == Lower(action)
        input_str == Lower(Str(input_data))
    IN  IF ContainsAny(action_lower, CodeActionKw) THEN CodeAgent
        ELSE IF Contains(input_str, CodeInputKw[1]) \/ Contains(input_str, CodeInputKw[2])
        THEN CodeAgent
        ELSE IF ContainsAny(action_lower, DataActionKw) THEN DataAgent
        ELSE IF \/ Contains(input_str, DataInputKw[1])
                \/ Contains(input_str, DataInputKw[2])
                \/ Contains(input_str, DataInputKw[3])
        THEN DataAgent
        ELSE IF ContainsAny(action_lower, ApiActionKw) THEN ApiAgent
        ELSE IF ContainsAny(action_lower, ResearchActionKw) THEN Researcher
        ELSE IF Contains(input_str, ResearchInputKw[1]) \/ Contains(input_str, ResearchInputKw[2])
        THEN Researcher
        ELSE IF ContainsAny(action_lower, WriteActionKw) THEN Writer
        ELSE IF Contains(input_str, WriteInputKw[1]) \/ Contains(input_str, WriteInputKw[2])
        THEN Writer
        ELSE Researcher

\* what subprocess.run can do: exit 0 with or without output, exit 1, run
\* longer than the timeout after the backend wrote some output, or fail to start
BackendOutcomes ==
    {[kind |-> "exit", returncode |-> 0, stdout |-> AnswerOut, stderr |-> <<>>],
     [kind |-> "exit", returncode |-> 0, stdout |-> BlankOut, stderr |-> <<>>],
     [kind |-> "exit", returncode |-> 1, stdout |-> <<>>, stderr |-> Boom],
     [kind |-> "TimeoutExpired", output |-> AnswerOut],
     [kind |-> "FileNotFoundError", message |-> NoSuchFile]}

\* the prompt of _execute_agent; input_data.get raises for an input that is no dict
BuildPrompt(action, input_data) ==
    IF action = Research
    THEN IF input_data.py = "dict"
         THEN [raised |-> FALSE,
               prompt |-> ItemGet(input_data.v, Query, ItemGet(input_data.v, Topic, <<>>))]
         ELSE [raised |-> TRUE]
    ELSE IF action = WriteWord
    THEN IF input_data.py = "dict"
         THEN [raised |-> FALSE,
               prompt |-> WriteAbout \o
                          ItemGet(input_data.v, Topic, ItemGet(input_data.v, Content, <<>>))]
         ELSE [raised |-> TRUE]
    ELSE [raised |-> FALSE,
          prompt |-> <<"A", "c", "t", "i", "o", "n", ":", " ">> \o action
                     \o <<"\n", "I", "n", "p", "u", "t", ":", " ">> \o JsonDumps(input_data)]

\* the command line run for an agent
Command(agent_id, prompt) == <<"opengoat", "agent", "run", agent_id, "--message", prompt>>

\* mutant: a backend that did not exit with 0 is run a second time
execute_agent_retry(agent_id, action, input_data, outcome) ==
    LET p == BuildPrompt(action, input_data)
    IN  IF p.raised THEN [raised |-> TRUE, launched |-> <<>>]
        ELSE LET cmd == Command(agent_id, p.prompt)
                 run == [cmd |-> cmd, outcome |-> outcome]
             IN  IF outcome.kind = "exit" /\ outcome.returncode = 0
                 THEN [raised |-> FALSE, launched |-> <<run>>,
                       result |-> [result |-> IF Strip(outcome.stdout) # <<>>
                                              THEN Strip(outcome.stdout) ELSE TaskCompleted,
                                   agent |-> agent_id]]
                 ELSE [raised |-> FALSE, launched |-> <<run, run>>,
                       result |-> [error |-> TaskTimedOut, agent |-> agent_id]]

\* mutant: what the backend wrote before the timeout is returned as the result
execute_agent_salvage(agent_id, action, input_data, outcome) ==
    LET p == BuildPrompt(action, input_data)
    IN  IF p.raised THEN [raised |-> TRUE, launched |-> <<>>]
        ELSE LET cmd == Command(agent_id, p.prompt)
                 run == [cmd |-> cmd, outcome |-> outcome]
             IN  IF outcome.kind = "exit"
                 THEN IF outcome.returncode = 0
                      THEN LET output == Strip(outcome.stdout)
                           IN  [raised |-> FALSE, launched |-> <<run>>,
                                result |-> [result |-> IF output # <<>> THEN output
                                                       ELSE TaskCompleted,
                                            agent |-> agent_id]]
                      ELSE [raised |-> FALSE, launched |-> <<run>>,
                            result |-> [error |-> outcome.stderr, agent |-> agent_id]]
                 ELSE IF outcome.kind = "TimeoutExpired"
                 THEN [raised |-> FALSE, launched |-> <<run>>,
                       result |-> [error |-> TaskTimedOut \o outcome.output,
                                   agent |-> agent_id]]
                 ELSE [raised |-> FALSE, launched |-> <<run>>,
                       result |-> [error |-> outcome.message, agent |-> agent_id]]

\* _execute_agent
execute_agent(agent_id, action, input_data, outcome) ==
    LET p == BuildPrompt(action, input_data)
    IN  IF p.raised THEN [raised |-> TRUE, launched |-> <<>>]
        ELSE LET cmd == Command(agent_id, p.prompt)
                 run == [cmd |-> cmd, outcome |-> outcome]
             IN  IF outcome.kind = "exit"
                 THEN IF outcome.returncode = 0
                      THEN LET output == Strip(outcome.stdout)
                           IN  [raised |-> FALSE, launched |-> <<run>>,
                                result |-> [result |-> IF output # <<>> THEN output
                                                       ELSE TaskCompleted,
                                            agent |-> agent_id]]
                      ELSE [raised |-> FALSE, launched |-> <<run>>,
                            result |-> [error |-> outcome.stderr, agent |-> agent_id]]
                 ELSE IF outcome.kind = "TimeoutExpired"
                 THEN [raised |-> FALSE, launched |-> <<run>>,
                       result |-> [error |-> TaskTimedOut, agent |-> agent_id]]
                 ELSE [raised |-> FALSE, launched |-> <<run>>,
                       result |-> [error |-> outcome.message, agent |-> agent_id]]

\* _send_json(status, data)
send_json(status, data) == [kind |-> "json", status |-> status, body |-> data]

\* the handler raised: the connection is closed without a response
NoResponse == [kind |-> "no_response"]

\* mutant: the target is chosen from the sender
bridge_handle_task_by_sender(task_request, outcome) ==
    LET params == task_request["params"]
        task_id == DictGetOr(task_request, "id", "unknown")
        sender == params.sender
        action == params.action
        input_data == params.input
        target == IF sender = "me" THEN determine_target_agent(action, input_data)
                  ELSE Writer
        r == execute_agent(target["agent_id"], action, input_data, outcome)
    IN  IF r.raised
        THEN [sent |-> NoResponse, launched |-> r.launched, log |-> <<target["agent_id"]>>]
        ELSE [sent |-> send_json(200, [jsonrpc |-> "2.0", id |-> task_id,
                                       result |-> [taskId |-> task_id,
                                                   status |-> "completed",
                                                   output |-> r.result]]),
              launched |-> r.launched, log |-> <<target["agent_id"]>>]

\* _handle_task; a target is a dict with two items, never falsy
bridge_handle_task(task_request, outcome) ==
    LET params == task_request["params"]
        task_id == DictGetOr(task_request, "id", "unknown")
        sender == params.sender
        action == params.action
        input_data == params.input
        target == determine_target_agent(action, input_data)
    IN  IF DOMAIN target = {}
        THEN [sent |-> send_json(400, [error |-> "Could not determine target agent"]),
              launched |-> <<>>, log |-> <<>>]
        ELSE LET r == execute_agent(target["agent_id"], action, input_data, outcome)
             IN  IF r.raised
                 THEN [sent |-> NoResponse, launched |-> r.launched,
                       log |-> <<target["agent_id"]>>]
                 ELSE [sent |-> send_json(200, [jsonrpc |-> "2.0", id |-> task_id,
                                                result |-> [taskId |-> task_id,
                                                            status |-> "completed",
                                                            output |-> r.result]]),
                       launched |-> r.launched, log |-> <<target["agent_id"]>>]

\* A2ABridgeHandler.do_POST; body.valid tells whether json.loads accepts the body
bridge_do_POST(body, outcome) ==
    IF ~body.valid
    THEN [sent |-> send_json(400, [error |-> "Invalid JSON"]), launched |-> <<>>, log |-> <<>>]
    ELSE LET task_request == body.request
             method == DictGetOr(task_request, "method", "")
         IN  IF method = TaskMethod
             THEN bridge_handle_task(task_request, outcome)
             ELSE [sent |-> send_json(404, [error |-> <<"Unknown method: ", method>>]),
                   launched |-> <<>>, log |-> <<>>]

\* the actions and inputs callers send to the router
RouterActions ==
    {ImplementAFunction, ResearchAITrends, SummarizeThis, Research, WriteWord, ConnectAPI,
     EditData}
RouterInputs ==
    {InDict(<<>>), InDict(<<<<Topic, OpenData>>>>), InDict(<<<<Query, FindCode>>>>),
     InDict(<<<<Topic, Document>>>>), InStr(Llm)}

\* one caller names itself "me" and gives its requests the id "c1" and the
\* taskId "t1", the other names itself "you" and sends a taskId but no id
TaskRequests ==
    {[id |-> "c1", method |-> TaskMethod,
      params |-> [taskId |-> "t1", sender |-> "me", action |-> a, input |-> inp]] :
        a \in RouterActions, inp \in RouterInputs}
    \cup {[method |-> TaskMethod,
           params |-> [taskId |-> "t2", sender |-> "you", action |-> a, input |-> inp]] :
             a \in RouterActions, inp \in RouterInputs}

\* a request of another method, one without a method, and a body that is no JSON
OtherBodies ==
    {[valid |-> TRUE, request |-> [id |-> "c1", method |-> "a2a/cancel"]],
     [valid |-> TRUE, request |-> [id |-> "c1"]],
     [valid |-> FALSE]}

\* do_POST for every task request and backend outcome, worked out once
Served ==
    [task_request \in TaskRequests, outcome \in BackendOutcomes |->
        bridge_do_POST([valid |-> TRUE, request |-> task_request], outcome)]

\* the router serves one task request out of requests
RouterPost(requests) ==
    \E task_request \in requests, outcome \in BackendOutcomes :
        LET r == Served[task_request, outcome]
        IN  /\ rtrRequest' = [valid |-> TRUE, request |-> task_request]
            /\ rtrResponse' = r.sent
            /\ launched' = r.launched
            /\ rtrLog' = r.log
            /\ UNCHANGED <<dirVars, srvVars, netVars>>

RouterTask == RouterPost(TaskRequests)

\* the router refuses a body that is no task request; no backend is involved
RouterOther ==
    \E posted \in OtherBodies :
        LET r == bridge_do_POST(posted, [kind |-> "TimeoutExpired"])
        IN  /\ rtrRequest' = posted
            /\ rtrResponse' = r.sent
            /\ launched' = r.launched
            /\ rtrLog' = r.log
            /\ UNCHANGED <<dirVars, srvVars, netVars>>

RouterNext ==
    \/ RouterTask
    \/ RouterOther

RouterSpec == Init /\ [][RouterNext]_vars

----------------------------------------------------------------------------
(* The request the router handled last *)

IsRouterTask ==
    /\ "request" \in DOMAIN rtrRequest
    /\ DictGetOr(rtrRequest.request, "method", "") = TaskMethod

RtrAction == rtrRequest.request["params"].action
RtrInput == rtrRequest.request["params"].input
RtrSender == rtrRequest.request["params"].sender

\* the router answered with status 200 and a result
Answered200 ==
    /\ rtrResponse.kind = "json"
    /\ rtrResponse.status = 200
    /\ "result" \in DOMAIN rtrResponse.body

\* the backend was run and exited with code 0
BackendSucceeded ==
    /\ Len(launched) >= 1
    /\ launched[Len(launched)].outcome.kind = "exit"
    /\ launched[Len(launched)].outcome.returncode = 0

\* the categories of the rule table, in priority order
RuleTable ==
    <<[target |-> "code", action_kw |-> CodeActionKw, input_kw |-> CodeInputKw],
      [target |-> "data", action_kw |-> DataActionKw, input_kw |-> DataInputKw],
      [target |-> "api", action_kw |-> ApiActionKw, input_kw |-> <<>>],
      [target |-> "researcher", action_kw |-> ResearchActionKw, input_kw |-> ResearchInputKw],
      [target |-> "writer", action_kw |-> WriteActionKw, input_kw |-> WriteInputKw]>>

\* case-insensitive substring match of any keyword
MatchesAny(text, kws) ==
    \E k \in 1..Len(kws) : Contains(Lower(text), Lower(kws[k]))

RuleApplies(rule, action, input_data) ==
    \/ MatchesAny(action, rule.action_kw)
    \/ MatchesAny(Str(input_data), rule.input_kw)

\* the target of the first rule that applies, researcher when none does
TableTarget(action, input_data) ==
    IF \E n \in 1..Len(RuleTable) : RuleApplies(RuleTable[n], action, input_data)
    THEN LET first == CHOOSE n \in 1..Len(RuleTable) :
                          /\ RuleApplies(RuleTable[n], action, input_data)
                          /\ \A m \in 1..(n - 1) : ~RuleApplies(RuleTable[m], action, input_data)
         IN  RuleTable[first].target
    ELSE "researcher"

NoKeywordMatch(action, input_data) ==
    \A n \in 1..Len(RuleTable) : ~RuleApplies(RuleTable[n], action, input_data)

\* two task requests in a row with the same action and input went to the same target
SameRouteTwice ==
    (/\ IsRouterTask
     /\ IsRouterTask'
     /\ RtrAction' = RtrAction
     /\ RtrInput' = RtrInput) => rtrLog' = rtrLog

----------------------------------------------------------------------------
----------------------------------------------------------------------------
(* C15: the target of every task request is the one the ordered rule table  *)
(* gives, first match wins, each category matching on the action or else    *)
(* on the input text, without regard to case; a higher category wins even   *)
(* when it matches the input only and a lower one matches the action.       *)
C15_RuleTable ==
    IsRouterTask => rtrLog = <<TableTarget(RtrAction, RtrInput)>>

\* an action with "research" and an input with "data" went to data
C15_Witness ==
    /\ IsRouterTask
    /\ Contains(Lower(RtrAction), Research)
    /\ RtrInput = InDict(<<<<Topic, OpenData>>>>)
    /\ rtrLog = <<"data">>

----------------------------------------------------------------------------
(* C16: when the backend did not exit with code 0 (non-zero exit, timeout,  *)
(* launch failure) the result the caller gets has status "error"; status    *)
(* "completed" is returned only when the backend exited with code 0.        *)
C16_FailureIsError ==
    (IsRouterTask /\ Answered200) =>
        /\ ~BackendSucceeded => rtrResponse.body.result.status = "error"
        /\ rtrResponse.body.result.status = "completed" => BackendSucceeded

----------------------------------------------------------------------------
(* C17: every task request, whatever its action, input and backend          *)
(* outcome, gets a target and is answered with status 200 and a result;     *)
(* the 400 answer for an undetermined target is never given.                *)
C17_Always200 ==
    IsRouterTask =>
        /\ Len(rtrLog) = 1
        /\ Answered200

----------------------------------------------------------------------------
(* a2a_sdk.py: A2AAgent.register and A2AAgent.discover *)

\* the path part of directory_url: "http://localhost:8080" and
\* "http://localhost:8080/v1"
DirectoryUrls == {<<>>, <<"v1">>}

\* the path of f"{directory_url}{path}"
UrlPath(directory_url, path) == <<"">> \o directory_url \o Tail(path)

DirectoryPost(path) == [to |-> "directory", method |-> "POST", path |-> path]

\* _post: the parsed body, or {"error": "HTTP <code>", "message": body} on an
\* HTTP error status
http_post(resp) ==
    IF resp.status = 200 THEN resp.body
    ELSE [error |-> <<"HTTP", resp.status>>, message |-> resp.body]

\* the agents that call the directory
ClientAgents ==
    {[agent_id |-> id, name |-> p.name, capabilities |-> p.capabilities,
      endpoint |-> p.endpoint] : id \in RegisterIds, p \in Profiles}

\* A2AAgent.register(endpoint); endpoint is self.endpoint when the call ends
client_register(agents, agent, endpoint, directory_url, now) ==
    LET path == UrlPath(directory_url, RegisterPath)
        body == [agentId |-> agent.agent_id, name |-> agent.name,
                 capabilities |-> agent.capabilities, endpoint |-> endpoint]
        d == do_POST(agents, path, body, now)
        result == http_post(d.resp)
    IN  [agents |-> d.agents,
         req |-> [method |-> "POST", path |-> path, body |-> body],
         resp |-> d.resp,
         calls |-> <<DirectoryPost(path)>>,
         endpoint |-> endpoint,
         result |-> IF "error" \in DOMAIN result
                    THEN [op |-> "register", kind |-> "raised", exc |-> "RuntimeError"]
                    ELSE [op |-> "register", kind |-> "returned", value |-> result]]

\* A2AAgent.discover(wanted_capabilities)
client_discover(agents, wanted_capabilities, directory_url, now) ==
    LET path == UrlPath(directory_url, DiscoverPath)
        body == [capabilities |-> wanted_capabilities]
        d == do_POST(agents, path, body, now)
        result == http_post(d.resp)
        found == DictGetOr(result, "agents", <<>>)
    IN  [agents |-> d.agents,
         req |-> [method |-> "POST", path |-> path, body |-> body],
         resp |-> d.resp,
         calls |-> <<DirectoryPost(path)>>,
         result |-> IF found = <<>>
                    THEN [op |-> "discover", kind |-> "returned_none"]
                    ELSE [op |-> "discover", kind |-> "returned", value |-> found[1]]]

\* a new agent object (endpoint None) calls register; the directory serves its
\* POST
ClientRegister ==
    \E agent \in ClientAgents, directory_url \in DirectoryUrls :
        LET c == client_register(AGENTS, agent, agent.endpoint, directory_url, clock)
        IN  /\ request' = c.req
            /\ AGENTS' = c.agents
            /\ response' = c.resp
            /\ netCalls' = c.calls
            /\ clientResult' = c.result
            /\ self_endpoint' = c.endpoint
            /\ Observe(c.req, c.resp)
            /\ UNCHANGED clock
            /\ UNCHANGED <<srvVars, rtrVars, netVars>>

\* an agent calls discover; the directory serves its POST
ClientDiscover ==
    \E wanted \in WantedLists, directory_url \in DirectoryUrls :
        LET c == client_discover(AGENTS, wanted, directory_url, clock)
        IN  /\ request' = c.req
            /\ AGENTS' = c.agents
            /\ response' = c.resp
            /\ netCalls' = c.calls
            /\ clientResult' = c.result
            /\ Observe(c.req, c.resp)
            /\ UNCHANGED <<clock, self_endpoint>>
            /\ UNCHANGED <<srvVars, rtrVars, netVars>>

\* the task requests the router gets from these agents
GatewayRequests ==
    {r \in TaskRequests :
        /\ r["params"].sender = "me"
        /\ r["params"].action = SummarizeThis
        /\ r["params"].input \in {InDict(<<>>), InStr(Llm)}}

\* the agents' calls, and the task router as the gateway that executes tasks
StackNext ==
    \/ ClientRegister
    \/ ClientDiscover
    \/ SendTask
    \/ RouterPost(GatewayRequests)

StackSpec == Init /\ [][StackNext]_vars

----------------------------------------------------------------------------
(* The client operation made last *)

ClientOp ==
    IF clientResult = NoResult THEN "none"
    ELSE IF "op" \in DOMAIN clientResult THEN clientResult.op
    ELSE "send_task"

\* the ids registered so far whose capabilities meet wanted, earliest first
MatchingInOrder(wanted) ==
    SelectSeq(firstOrder,
              LAMBDA id : Intersects(registered[id].body["capabilities"], wanted))

\* the directory answered the operation with a list of matches
HasMatchList == response.status = 200 /\ "agents" \in DOMAIN response.body

\* the caller saw the operation fail: an exception, or an error returned
CallerSawFailure ==
    \/ clientResult.kind = "raised"
    \/ /\ ClientOp = "send_task"
       /\ clientResult.kind = "returned"
       /\ clientResult.what = "http_error"

DirectoryCalls == {i \in 1..Len(netCalls) : netCalls[i].to = "directory"}
TargetCalls == {i \in 1..Len(netCalls) : netCalls[i].to # "directory"}

----------------------------------------------------------------------------
(* C18: discover(wanted) returns the first record of the directory's        *)
(* discover response, which is the earliest registered agent that matches,  *)
(* and returns None exactly when the directory's match list is empty.       *)
C18_DiscoverFirstOrNone ==
    ClientOp = "discover" =>
        /\ (HasMatchList /\ response.body.agents # <<>>) =>
               /\ clientResult.kind = "returned"
               /\ clientResult.value = response.body.agents[1]
               /\ clientResult.value.agentId =
                      MatchingInOrder(request.body["capabilities"])[1]
        /\ clientResult.kind = "returned_none" <=>
               (HasMatchList /\ response.body.agents = <<>>)

----------------------------------------------------------------------------
(* C19: whenever the directory or the target agent answers register,        *)
(* discover or send_task with an error status, the caller sees a failure    *)
(* and never a normal result; a discover with an empty wanted list is not   *)
(* reported as "no match".                                                  *)
C19_NoErrorDropped ==
    /\ (ClientOp # "none" /\ response.status # 200) => CallerSawFailure
    /\ (ClientOp = "discover" /\ request.body["capabilities"] = <<>>) =>
           clientResult.kind # "returned_none"

----------------------------------------------------------------------------
(* C20: one client call sends at most one request to the directory and at   *)
(* most one to the target agent, a failed request is the last one of its    *)
(* call, and one router task runs the backend at most once.                 *)
C20_NoRetries ==
    /\ ClientOp # "none" =>
           /\ Cardinality(DirectoryCalls) <= 1
           /\ Cardinality(TargetCalls) <= 1
           /\ response.status # 200 => Len(netCalls) = 1
    /\ IsRouterTask => Len(launched) <= 1

\* a send_task that ended in a connection failure after its two requests, and a
\* router task whose backend ran over the timeout after one launch
C20_Witness ==
    /\ ClientOp = "send_task"
    /\ clientResult = [kind |-> "raised", exc |-> "URLError"]
    /\ Len(netCalls) = 2
    /\ IsRouterTask
    /\ Len(launched) = 1
    /\ launched[1].outcome.kind = "TimeoutExpired"

----------------------------------------------------------------------------
(* The target of the send_task made last *)

\* the agent id the caller passed to send_task, read off the directory URL
SendTaskTarget == SubSeq(request.path, Len(AgentsPath) + 1, Len(request.path))

\* the requests of the call that carried the task envelope
EnvelopeCalls == {i \in 1..Len(netCalls) : netCalls[i].method = "POST"}

----------------------------------------------------------------------------
(* C21: every send_task first asks the directory for the record of its      *)
(* target and sends the task envelope only to the endpoint in the record    *)
(* the directory returned, which is the endpoint of the target's latest     *)
(* registration; the directory never receives a task envelope.              *)
C21_SentToResolvedTarget ==
    ClientOp = "send_task" =>
        /\ netCalls[1] = DirectoryCall(AgentUrlPath(SendTaskTarget))
        /\ \A i \in EnvelopeCalls :
               /\ i = 2
               /\ netCalls[i].to # "directory"
               /\ netCalls[i].to = response.body.endpoint
               /\ SendTaskTarget \in DOMAIN registered
               /\ netCalls[i].to = registered[SendTaskTarget].body["endpoint"]

----------------------------------------------------------------------------
(* C23: register raises its registration error whenever the directory      *)
(* answers with an error status, and stores the endpoint in the agent      *)
(* object only when the directory accepted it: after a failed register the *)
(* agent's endpoint is what it was before the call, None for a new agent   *)
(* object.                                                                  *)
C23_FailedRegisterKeepsEndpoint ==
    ClientOp = "register" =>
        /\ response.status # 200 =>
               clientResult = [op |-> "register", kind |-> "raised",
                               exc |-> "RuntimeError"]
        /\ clientResult.kind = "returned" =>
               self_endpoint = request.body["endpoint"]
        /\ clientResult.kind = "raised" => self_endpoint = "None"

----------------------------------------------------------------------------
(* What one step does to the registry *)

DictKeys(d) == {d[i].key : i \in 1..Len(d)}

\* every record but the one at key k is in the registry as before
OthersUntouched(k) ==
    /\ DictKeys(AGENTS') \ {k} = DictKeys(AGENTS) \ {k}
    /\ \A j \in DictKeys(AGENTS) \ {k} : DictGet(AGENTS', j) = DictGet(AGENTS, j)

----------------------------------------------------------------------------
(* C27: a step that changes the registry is an accepted register, and it    *)
(* changes only the record at the registered agent id: list, get and        *)
(* discover, answered with success or with an error, and a refused          *)
(* register leave the registry as it was, and every other record keeps all  *)
(* its fields, registeredAt included.                                       *)
C27_OnlyRegisterWrites ==
    [][/\ AGENTS' # AGENTS =>
              /\ RegisterAccepted'
              /\ OthersUntouched(request'.body["agentId"])
       /\ (request'.method = "GET" \/ IsDiscover' \/ response'.status # 200) =>
              AGENTS' = AGENTS]_vars

\* a register accepted at a later time than the record of another agent, which
\* still carries its own time
C27_Witness ==
    /\ RegisterAccepted
    /\ DictGet(AGENTS, request.body["agentId"]).registeredAt = clock
    /\ \E j \in DictKeys(AGENTS) :
           /\ j # request.body["agentId"]
           /\ DictGet(AGENTS, j).registeredAt < clock

----------------------------------------------------------------------------
(* a2a_directory.py: do_POST from the bytes of the request body *)

\* request bodies as sent: one byte 0xff, the text "{", the text "[]", and no
\* body at all
RawBodies == {"\\xff", "{", "[]", ""}

\* the handler raised: the connection is closed without a response
NoReply(agents) == Reply(agents, 0, NoBody)

\* rfile.read(content_length).decode(), or "{}" when there is no body
read_body(raw) ==
    IF raw = "" THEN [text |-> "{}"]
    ELSE IF raw = "\\xff" THEN [raised |-> "UnicodeDecodeError"]
    ELSE [text |-> raw]

\* json.loads of these texts
json_loads(text) ==
    IF text = "{}" THEN [value |-> PyDict(NoBody)]
    ELSE IF text = "[]" THEN [value |-> PyList(<<>>)]
    ELSE [raised |-> "JSONDecodeError"]

\* _handle_register when the parsed body is a list: "f not in request" tests
\* the list's elements, request["agentId"] raises TypeError
handle_register_list(agents, items) ==
    LET missing == SelectSeq(Required, LAMBDA f : f \notin SeqToSet(items))
    IN  IF missing # <<>>
        THEN Reply(agents, 400, ErrorBody("Missing fields", missing))
        ELSE NoReply(agents)

do_POST_raw(agents, path, raw, now) ==
    LET body == read_body(raw)
    IN  IF "raised" \in DOMAIN body THEN NoReply(agents)
        ELSE LET parsed == json_loads(body.text)
             IN  IF "raised" \in DOMAIN parsed
                 THEN Reply(agents, 400, ErrorBody("Invalid JSON", <<>>))
                 ELSE IF parsed.value.py = "dict"
                 THEN do_POST(agents, path, parsed.value.v, now)
                 ELSE IF path = RegisterPath
                 THEN handle_register_list(agents, parsed.value.v)
                 ELSE IF path = DiscoverPath
                 THEN NoReply(agents)
                 ELSE Reply(agents, 404, ErrorBody("Unknown endpoint", <<>>))

\* the directory serves one POST request whose body is not a JSON object
PostRaw ==
    \E path \in {RegisterPath, DiscoverPath, UnknownPath}, raw \in RawBodies :
        LET r == do_POST_raw(AGENTS, path, raw, clock)
            req == [method |-> "POST", path |-> path, body |-> [raw |-> raw]]
        IN  /\ request' = req
            /\ AGENTS' = r.agents
            /\ response' = r.resp
            /\ netCalls' = <<>>
            /\ clientResult' = NoResult
            /\ Observe(req, r.resp)
            /\ UNCHANGED <<clock, self_endpoint>>
            /\ UNCHANGED <<srvVars, rtrVars, netVars>>

\* the directory with callers that send any bytes
BoundaryNext ==
    \/ Next
    \/ PostRaw

BoundarySpec == Init /\ [][BoundaryNext]_vars

\* the last request had a body that is not a JSON object
MalformedRequest == "raw" \in DOMAIN request.body /\ request.body["raw"] # ""

\* the last request was to a path the directory does not serve
UnknownEndpoint ==
    \/ request.method = "POST" /\ request.path \notin {RegisterPath, DiscoverPath}
    \/ /\ request.method = "GET"
       /\ request.path # AgentsPath
       /\ ~StartsWithAgents(request.path)

----------------------------------------------------------------------------
(* C25: the directory answers a request whose body is malformed with        *)
(* status 400 and a request to a path it does not serve with status 404     *)
(* (either of the two when the request is both), and in all these cases     *)
(* the registry stays as it was.                                            *)
C25_BoundaryErrors ==
    [][/\ (MalformedRequest' /\ ~UnknownEndpoint') => response'.status = 400
       /\ (UnknownEndpoint' /\ ~MalformedRequest') => response'.status = 404
       /\ (MalformedRequest' /\ UnknownEndpoint') => response'.status \in {400, 404}
       /\ (MalformedRequest' \/ UnknownEndpoint') => AGENTS' = AGENTS]_vars

----------------------------------------------------------------------------
(* C26: every response the agent server and the task router send for a      *)
(* task envelope, a result or an error, has the id of that envelope, and    *)
(* the taskId of a result is the taskId of the envelope's params.           *)
C26_ResponseCorrelates ==
    /\ (Received /\ srvResponse.kind = "json") =>
           /\ srvResponse.body.id = srvRequest.envelope["id"]
           /\ "result" \in DOMAIN srvResponse.body =>
                  srvResponse.body.result.taskId = srvRequest.envelope["params"].taskId
    /\ (IsRouterTask /\ rtrResponse.kind = "json") =>
           /\ "id" \in DOMAIN rtrRequest.request =>
                  /\ "id" \in DOMAIN rtrResponse.body
                  /\ rtrResponse.body.id = rtrRequest.request["id"]
           /\ "result" \in DOMAIN rtrResponse.body =>
                  rtrResponse.body.result.taskId = rtrRequest.request["params"].taskId

----------------------------------------------------------------------------
(* The backend run of the router task handled last *)

\* how the one backend run of the task ended
BackendOutcome == launched[1].outcome

\* the agent the backend was run for
ExecutedAgent == launched[1].cmd[4]

\* the output of the result the router sent
RouterOutput == rtrResponse.body.result.output

BackendFailure(kind) ==
    /\ IsRouterTask
    /\ Answered200
    /\ Len(launched) = 1
    /\ IF kind = "nonzero"
       THEN BackendOutcome.kind = "exit" /\ BackendOutcome.returncode # 0
       ELSE IF kind = "timeout"
       THEN BackendOutcome.kind = "TimeoutExpired"
       ELSE BackendOutcome.kind \notin {"exit", "TimeoutExpired"}

----------------------------------------------------------------------------
----------------------------------------------------------------------------
(* a2a_directory.py: run_server, with several clients connected at once *)

\* the directory completes at most MaxRegisters register requests
MaxRegisters == 2

\* name / capabilities / endpoint combinations the concurrent clients use
ConcProfiles == {p \in Profiles : p.capabilities # <<>>}

ConcRegisters ==
    {[method |-> "POST", path |-> RegisterPath, body |-> FullBody(id, p)] :
        id \in RegisterIds, p \in ConcProfiles}

\* list, get, discover and a discover that names no capability
ConcReads ==
    {[method |-> "GET", path |-> AgentsPath, body |-> NoBody],
     [method |-> "GET", path |-> AgentUrlPath(<<"b">>), body |-> NoBody],
     [method |-> "POST", path |-> DiscoverPath, body |-> [capabilities |-> <<"echo">>]],
     [method |-> "POST", path |-> DiscoverPath, body |-> [capabilities |-> <<>>]]}

\* the clients whose request a handler is working on
Busy == {c \in Clients : conns[c].stage \in {"handling", "scanning"}}

\* the register requests sent and not yet completed
RegistersUnderWay ==
    {c \in Clients : /\ conns[c].stage \in {"sent", "handling"}
                     /\ conns[c].req \in ConcRegisters}

\* mutant: socketserver.ThreadingMixIn, every connection gets its own thread
CanAccept_threading(busy) == TRUE

\* HTTPServer.serve_forever handles the request of one connection inside its
\* loop and accepts the next connection when the handler has returned
CanAccept(busy) == busy = {}

\* the request is a discover that goes on to scan the registry
ScansRegistry(req) ==
    /\ req.method = "POST"
    /\ req.path = DiscoverPath
    /\ DictGetOr(req.body, "capabilities", <<>>) # <<>>

\* what a handler that runs alone on the registry agents answers to req
Handled(agents, req, now) ==
    IF req.method = "POST" THEN do_POST(agents, req.path, req.body, now)
    ELSE do_GET(agents, req.path)

ConnUnchanged == UNCHANGED <<clock, request, response, netCalls, clientResult,
                             self_endpoint, registered, firstOrder, repeated>>

\* a client with no request under way sends one
ClientSend ==
    \E c \in Clients, req \in ConcRegisters \cup ConcReads :
        /\ conns[c].stage \in {"idle", "answered"}
        /\ req \in ConcRegisters =>
               Len(snapshots) - 1 + Cardinality(RegistersUnderWay) < MaxRegisters
        /\ conns' = [conns EXCEPT ![c] = [IdleConn EXCEPT !.stage = "sent", !.req = req]]
        /\ UNCHANGED <<AGENTS, snapshots>>
        /\ ConnUnchanged
        /\ UNCHANGED <<srvVars, rtrVars>>

\* the server accepts a connection and creates its handler
Accept ==
    \E c \in Clients :
        /\ conns[c].stage = "sent"
        /\ CanAccept(Busy)
        /\ conns' = [conns EXCEPT ![c].stage = "handling"]
        /\ UNCHANGED <<AGENTS, snapshots>>
        /\ ConnUnchanged
        /\ UNCHANGED <<srvVars, rtrVars>>

\* the handler of a register, list or get request, or of a discover that names
\* no capability, runs and answers
Serve ==
    \E c \in Clients :
        LET req == conns[c].req
            r == Handled(AGENTS, req, clock)
        IN  /\ conns[c].stage = "handling"
            /\ ~ScansRegistry(req)
            /\ AGENTS' = r.agents
            /\ conns' = [conns EXCEPT ![c].stage = "answered", ![c].resp = r.resp]
            /\ snapshots' = IF req \in ConcRegisters /\ r.resp.status = 200
                            THEN Append(snapshots, r.agents)
                            ELSE snapshots
            /\ ConnUnchanged
            /\ UNCHANGED <<srvVars, rtrVars>>

\* _handle_discover starts its loop over AGENTS.items()
DiscoverBegin ==
    \E c \in Clients :
        /\ conns[c].stage = "handling"
        /\ ScansRegistry(conns[c].req)
        /\ conns' = [conns EXCEPT ![c].stage = "scanning", ![c].size = Len(AGENTS),
                                  ![c].i = 0, ![c].matches = <<>>]
        /\ UNCHANGED <<AGENTS, snapshots>>
        /\ ConnUnchanged
        /\ UNCHANGED <<srvVars, rtrVars>>

\* one turn of the loop: the dict iterator raises RuntimeError when the dict has
\* changed size, the next item is tested, or the loop ends and the matches are
\* sent
DiscoverNext ==
    \E c \in Clients :
        LET h == conns[c]
            wanted == h.req.body["capabilities"]
        IN  /\ h.stage = "scanning"
            /\ conns' =
                 IF Len(AGENTS) # h.size
                 THEN [conns EXCEPT ![c].stage = "answered",
                                    ![c].resp = NoReply(AGENTS).resp]
                 ELSE IF h.i < Len(AGENTS)
                 THEN [conns EXCEPT ![c].i = h.i + 1,
                                    ![c].matches =
                                        IF Matches(AGENTS[h.i + 1].value, wanted)
                                        THEN Append(h.matches, AGENTS[h.i + 1].value)
                                        ELSE h.matches]
                 ELSE [conns EXCEPT ![c].stage = "answered",
                                    ![c].resp = Reply(AGENTS, 200,
                                                      [agents |-> h.matches]).resp]
            /\ UNCHANGED <<AGENTS, snapshots>>
            /\ ConnUnchanged
            /\ UNCHANGED <<srvVars, rtrVars>>

\* the directory and clients that call it at the same time
ConcNext ==
    \/ ClientSend
    \/ Accept
    \/ Serve
    \/ DiscoverBegin
    \/ DiscoverNext

ConcSpec == Init /\ [][ConcNext]_vars

----------------------------------------------------------------------------
(* C22: the directory works on one request at a time, and with clients      *)
(* calling at the same time every answer to a list, get or discover is the  *)
(* answer one handler running alone gives on a registry that some sequence  *)
(* of completed register requests left behind.                              *)
C22_OneAtATime ==
    /\ Cardinality(Busy) <= 1
    /\ \A c \in Clients :
           (conns[c].stage = "answered" /\ conns[c].req \in ConcReads) =>
               \E k \in 1..Len(snapshots) :
                   conns[c].resp = Handled(snapshots[k], conns[c].req, clock).resp

\* a discover was answered with a match while the other client's register,
\* sent before that answer, is still waiting to be accepted
C22_Witness ==
    \E c, d \in Clients :
        /\ conns[c].stage = "answered"
        /\ ScansRegistry(conns[c].req)
        /\ conns[c].resp.status = 200
        /\ conns[c].resp.body.agents # <<>>
        /\ conns[d].stage = "sent"
        /\ conns[d].req \in ConcRegisters

====
